---- MODULE Spec2Model ----
(***************************************************************************)
(* The ingestion pipeline of src/data-pipeline: DataIngestionPipeline      *)
(* (data_ingestion.py) over DatabaseManager (database.py) and the          *)
(* configuration of config.py.                                             *)
(*                                                                         *)
(* Text is a sequence of one-character strings, so that strip(), len(),    *)
(* split() and the character filters of the parsers are computed.  A cell  *)
(* of the DataFrame is [na, v]: na for a missing column or a NaN, v the    *)
(* str() of the value otherwise.                                           *)
(***************************************************************************)
EXTENDS Integers, Sequences, FiniteSets, TLC

\* ------------------------------------------------------------------ bounds

\* Rows of the longest source file.
MaxRows == 4
\* Invocations of run_pipeline (the external scheduler re-runs it).
MaxRuns == 2
\* Batches handed to insert_products directly in SpecUpsert (each may be retried
\* once), and the records of the longest of them.
MaxCalls == 2
MaxBatch == 3
\* Characters of the longest generated string handed to a field parser.
MaxText == 4

\* MODEL_CONFIG['batch_size'] (config.py:19) is 32, page_size (data_ingestion.py:268)
\* is 100 and DATA_CONFIG['max_records'] (config.py:26) is 50000.  They are scaled
\* down here so that a file of MaxRows rows spans several embedding batches and
\* several write pages and is cut by max_records; nothing below depends on the
\* values other than through these boundaries.
batch_size == 2
page_size == 2
max_records == 3

\* --------------------------------------------------------------- constants

\* MODEL_CONFIG['embedding_dimension'].
embedding_dimension == 384
\* The width of the three vector(384) columns of the products table.
vector_column_dim == 384
\* asin VARCHAR(20) and brand VARCHAR(255).
asin_max_len == 20
brand_max_len == 255
\* A dimensionality the embedding function may have that is not the declared one.
OtherDim == 768

\* ------------------------------------------------------------------- text

Digits == {"0", "1", "2", "3", "4", "5", "6", "7", "8", "9"}

DigitChar == <<"0", "1", "2", "3", "4", "5", "6", "7", "8", "9">>

DigitVal(c) == CHOOSE d \in 0..9 : DigitChar[d + 1] = c

RECURSIVE IntToStr(_)
\* str(i) of a non-negative integer, as in f'ASIN_{i}'.
IntToStr(n) == IF n < 10 THEN <<DigitChar[n + 1]>>
               ELSE IntToStr(n \div 10) \o <<DigitChar[(n % 10) + 1]>>

RECURSIVE LStrip(_)
LStrip(s) == IF s # <<>> /\ Head(s) = " " THEN LStrip(Tail(s)) ELSE s

RECURSIVE RStrip(_)
RStrip(s) == IF s # <<>> /\ s[Len(s)] = " " THEN RStrip(SubSeq(s, 1, Len(s) - 1)) ELSE s

\* str.strip()
Strip(s) == RStrip(LStrip(s))

RECURSIVE Filter(_, _)
\* ''.join(c for c in s if c in keep)
Filter(s, keep) == IF s = <<>> THEN <<>>
                   ELSE (IF Head(s) \in keep THEN <<Head(s)>> ELSE <<>>) \o Filter(Tail(s), keep)

RECURSIVE Remove(_, _)
\* s.replace(c, '') for every c of drop
Remove(s, drop) == IF s = <<>> THEN <<>>
                   ELSE (IF Head(s) \in drop THEN <<>> ELSE <<Head(s)>>) \o Remove(Tail(s), drop)

RECURSIVE Count(_, _)
Count(s, c) == IF s = <<>> THEN 0 ELSE (IF Head(s) = c THEN 1 ELSE 0) + Count(Tail(s), c)

RECURSIVE Split(_, _)
\* s.split(sep) after every separator of seps was replaced by one of them:
\* the pieces between separators, empty pieces included.
Split(s, seps) ==
    IF \A k \in 1..Len(s) : s[k] \notin seps THEN <<s>>
    ELSE LET k == CHOOSE j \in 1..Len(s) : s[j] \in seps /\ \A h \in 1..(j - 1) : s[h] \notin seps
         IN  <<SubSeq(s, 1, k - 1)>> \o Split(SubSeq(s, k + 1, Len(s)), seps)

RECURSIVE SelectNonEmpty(_)
SelectNonEmpty(ss) == IF ss = <<>> THEN <<>>
                      ELSE (IF Head(ss) # <<>> THEN <<Head(ss)>> ELSE <<>>) \o SelectNonEmpty(Tail(ss))

Min(a, b) == IF a < b THEN a ELSE b

RECURSIVE Pow10(_)
Pow10(k) == IF k = 0 THEN 1 ELSE 10 * Pow10(k - 1)

\* ---------------------------------------------------------------- numbers

(* A float is [none, num, scale]: the decimal num / 10^scale, with no trailing
   zero in the fraction, or None.  The parsers below read decimal literals
   (sign, digits, one point), which is what float() accepts over the alphabet
   of the model. *)
None == [none |-> TRUE, num |-> 0, scale |-> 0]

RECURSIVE Dec(_, _)
Dec(n, s) == IF s > 0 /\ n % 10 = 0 THEN Dec(n \div 10, s - 1)
             ELSE [none |-> FALSE, num |-> n, scale |-> s]

RECURSIVE DigitsToInt(_)
DigitsToInt(ds) == IF ds = <<>> THEN 0
                   ELSE 10 * DigitsToInt(SubSeq(ds, 1, Len(ds) - 1)) + DigitVal(ds[Len(ds)])

\* The places after the decimal point of an unsigned literal.
FracLen(s) == IF Count(s, ".") = 0 THEN 0
              ELSE Len(s) - (CHOOSE k \in 1..Len(s) : s[k] = ".")

\* Whether float() accepts the unsigned literal s.
IsUnsignedLiteral(s) ==
    /\ \A k \in 1..Len(s) : s[k] \in Digits \cup {"."}
    /\ Count(s, ".") <= 1
    /\ \E k \in 1..Len(s) : s[k] \in Digits

UnsignedValue(s) == Dec(DigitsToInt(Remove(s, {"."})), FracLen(s))

\* float(s) of a str: surrounding whitespace and one sign are accepted;
\* None stands for the ValueError.  (float() also reads 'nan', which every
\* caller returns on before it calls float(), and 'inf' and exponents, which
\* are not written with the characters of the strings below.)
PyFloat(s) ==
    LET t    == Strip(s)
        neg  == t # <<>> /\ Head(t) = "-"
        body == IF t # <<>> /\ Head(t) \in {"-", "+"} THEN Tail(t) ELSE t
    IN  IF ~IsUnsignedLiteral(body) THEN None
        ELSE LET v == UnsignedValue(body)
             IN  IF neg THEN [v EXCEPT !.num = 0 - v.num] ELSE v

\* a < b for two floats that are not None.
DecLess(a, b) == a.num * Pow10(b.scale) < b.num * Pow10(a.scale)

\* int(x * m) for a float x and a positive integer m: truncation towards zero.
IntOfProduct(x, m) ==
    LET n == x.num * m
        d == Pow10(x.scale)
    IN  IF n >= 0 THEN n \div d ELSE 0 - ((0 - n) \div d)

NanStr == <<"n", "a", "n">>

\* A _parse_price that returns 0 where it cannot parse.
_parse_price_or_zero(price_str) ==
    IF price_str = <<>> \/ price_str = NanStr THEN None
    ELSE LET price_clean == Filter(price_str, Digits \cup {"."})
         IN  IF price_clean = <<>> THEN None
             ELSE IF IsUnsignedLiteral(price_clean) THEN UnsignedValue(price_clean)
             ELSE Dec(0, 0)

\* _parse_price
_parse_price(price_str) ==
    IF price_str = <<>> \/ price_str = NanStr THEN None
    ELSE LET price_clean == Filter(price_str, Digits \cup {"."})
         IN  IF price_clean = <<>> THEN None
             ELSE IF IsUnsignedLiteral(price_clean) THEN UnsignedValue(price_clean)
             ELSE None

\* A _parse_rating that returns the float as it is.
_parse_rating_unclamped(rating_val) ==
    IF rating_val = NanStr THEN None ELSE PyFloat(rating_val)

\* _parse_rating
_parse_rating(rating_val) ==
    IF rating_val = NanStr THEN None
    ELSE LET rating == PyFloat(rating_val)
             five   == Dec(5, 0)
             zero   == Dec(0, 0)
         IN  IF rating.none THEN None
             ELSE LET m == IF DecLess(rating, five) THEN rating ELSE five
                  IN  IF DecLess(zero, m) THEN m ELSE zero

LowerCase == <<"a", "b", "c", "d", "e", "f", "g", "h", "i", "j", "k", "l", "m", "n", "o", "p", "q",
               "r", "s", "t", "u", "v", "w", "x", "y", "z">>

UpperCase == <<"A", "B", "C", "D", "E", "F", "G", "H", "I", "J", "K", "L", "M", "N", "O", "P", "Q",
               "R", "S", "T", "U", "V", "W", "X", "Y", "Z">>

\* str.upper()
Upper(s) == [k \in 1..Len(s) |->
               IF \E h \in 1..26 : LowerCase[h] = s[k]
               THEN UpperCase[CHOOSE h \in 1..26 : LowerCase[h] = s[k]]
               ELSE s[k]]

\* _parse_review_count
_parse_review_count(review_count_val) ==
    IF review_count_val = NanStr THEN 0
    ELSE LET count_str == Remove(review_count_val, {","})
             up        == Upper(count_str)
             x         == IF "K" \in {up[k] : k \in 1..Len(up)} THEN PyFloat(Remove(up, {"K"}))
                          ELSE IF "M" \in {up[k] : k \in 1..Len(up)} THEN PyFloat(Remove(up, {"M"}))
                          ELSE PyFloat(count_str)
             m         == IF "K" \in {up[k] : k \in 1..Len(up)} THEN 1000
                          ELSE IF "M" \in {up[k] : k \in 1..Len(up)} THEN 1000000
                          ELSE 1
         IN  IF x.none THEN 0 ELSE IntOfProduct(x, m)

RECURSIVE StripChars(_, _)
\* str.strip(chars): the characters of cs removed from both ends.
StripChars(s, cs) ==
    IF s # <<>> /\ Head(s) \in cs THEN StripChars(Tail(s), cs)
    ELSE IF s # <<>> /\ s[Len(s)] \in cs THEN StripChars(SubSeq(s, 1, Len(s) - 1), cs)
    ELSE s

StripEach(ss) == [k \in 1..Len(ss) |-> Strip(ss[k])]

\* A _parse_category that returns every token.
_parse_category_untruncated(category_str) ==
    IF category_str = <<>> \/ category_str = NanStr THEN <<>>
    ELSE IF Head(category_str) = "[" /\ category_str[Len(category_str)] = "]"
         THEN SelectNonEmpty(StripEach(Split(
                  Remove(StripChars(category_str, {"[", "]"}), {"'", "\""}), {","})))
         ELSE SelectNonEmpty(StripEach(Split(category_str, {",", "|", ">"})))

\* _parse_category
_parse_category(category_str) ==
    IF category_str = <<>> \/ category_str = NanStr THEN <<>>
    ELSE LET categories ==
                 IF Head(category_str) = "[" /\ category_str[Len(category_str)] = "]"
                 THEN SelectNonEmpty(StripEach(Split(
                          Remove(StripChars(category_str, {"[", "]"}), {"'", "\""}), {","})))
                 ELSE SelectNonEmpty(StripEach(Split(category_str, {",", "|", ">"})))
         IN  SubSeq(categories, 1, Min(5, Len(categories)))

\* ---------------------------------------------------------- normalization

Columns == {"asin", "input_asin", "title", "description", "brand", "manufacturer",
            "categories", "final_price", "initial_price", "image_url", "rating",
            "reviews_count"}

\* A cell that is missing from the row, or NaN.
NaN == [na |-> TRUE, v |-> <<>>]

Cell(s) == [na |-> FALSE, v |-> s]

\* A lookup that yields '' for a missing cell, whatever the fallback.
GetWithoutFallback(row, c, dflt) == IF row[c].na THEN <<>> ELSE row[c].v

\* row[c] if c in row and pd.notna(row[c]) else dflt
Get(row, c, dflt) == IF row[c].na THEN dflt ELSE row[c].v

AsinPrefix == <<"A", "S", "I", "N", "_">>

\* The "Clean up None values" loop for a str field: the literal 'nan' becomes ''.
CleanStr(s) == IF s = NanStr THEN <<>> ELSE s

\* The dict that one iteration of the loop of parse_amazon_data builds from
\* row i (i counts from 0), after the clean-up of its null values.
ParseRow(i, row) ==
    LET asin_val         == Get(row, "asin", Get(row, "input_asin", AsinPrefix \o IntToStr(i)))
        title_val        == Get(row, "title", <<>>)
        description_val  == Get(row, "description", <<>>)
        brand_val        == Get(row, "brand", Get(row, "manufacturer", <<>>))
        category_val     == Get(row, "categories", <<>>)
        price_val        == Get(row, "final_price", Get(row, "initial_price", <<>>))
        image_url_val    == Get(row, "image_url", <<>>)
        rating_val       == Get(row, "rating", <<"0">>)
        review_count_val == Get(row, "reviews_count", <<"0">>)
    IN  [asin         |-> CleanStr(asin_val),
         title        |-> CleanStr(title_val),
         description  |-> CleanStr(description_val),
         brand        |-> CleanStr(brand_val),
         category     |-> _parse_category(category_val),
         price        |-> _parse_price(price_val),
         image_url    |-> CleanStr(image_url_val),
         rating       |-> _parse_rating(rating_val),
         review_count |-> _parse_review_count(review_count_val)]

\* A filter on the length of the title as it is, not trimmed.
AcceptsUntrimmed(parsed_product) ==
    LET title_str == parsed_product.title
    IN  title_str # <<>> /\ title_str # NanStr /\ Len(title_str) > 3

\* A filter that lets a trimmed title of three characters through.
AcceptsThreeOrMore(parsed_product) ==
    LET title_str == parsed_product.title
    IN  title_str # <<>> /\ title_str # NanStr /\ Len(Strip(title_str)) >= 3

\* "Only include products with meaningful content"
Accepts(parsed_product) ==
    LET title_str == parsed_product.title
    IN  title_str # <<>> /\ title_str # NanStr /\ Len(Strip(title_str)) > 3

\* A loop without the inner try: the exception of a row reaches the outer
\* handler, which returns [].
OnRowErrorAbort(products_, rest) == [products |-> <<>>, rest |-> <<>>]

\* "except Exception as e: logger.warning(...); continue": the list is as it
\* was and the loop goes on with the rows that follow.
OnRowError(products_, rest) == [products |-> products_, rest |-> rest]

RECURSIVE ParseRows(_, _, _, _)
\* The loop over df.iterrows() from row i on, rows being the rows from i on and
\* products_ the list so far.  raising holds the positions of the rows in
\* whose iteration the body of the try raises before the append.
ParseRows(i, rows, raising, products_) ==
    IF rows = <<>> THEN products_
    ELSE IF i \in raising
         THEN LET c == OnRowError(products_, Tail(rows))
              IN  ParseRows(i + 1, c.rest, raising, c.products)
         ELSE LET parsed_product == ParseRow(i, Head(rows))
              IN  ParseRows(i + 1, Tail(rows), raising,
                            IF Accepts(parsed_product) THEN Append(products_, parsed_product)
                            ELSE products_)

\* parse_amazon_data: [] when the file cannot be read, else the accepted
\* products of its first max_records rows.
parse_amazon_data(file) ==
    IF ~file.readable THEN <<>>
    ELSE ParseRows(0, SubSeq(file.rows, 1, Min(max_records, Len(file.rows))), file.raising, <<>>)

\* ---------------------------------------------------------------- embedding

\* The three text projections of generate_embeddings.
TitleText(p) == p.title

DescriptionText(p) == IF p.description # <<>> THEN p.description ELSE p.title

CombinedText(p) == Strip(p.title \o <<" ">> \o p.description \o <<" ">> \o p.brand)

\* model.encode(texts) of a model of dimensionality dim: one vector per text,
\* in order.  A vector is known by the text it encodes and by its length.
Encode(texts, dim) == [k \in 1..Len(texts) |-> [of |-> texts[k], dim |-> dim]]

\* seq[i:batch_end] of Python, i and batch_end counted from 0.
Slice(seq, i, batch_end) == SubSeq(seq, i + 1, batch_end)

\* -------------------------------------------------------------------- store

(* The products table.  A table is a function from the asin of each row (the
   UNIQUE column) to the row.  Rows live in the committed table `store`, or in
   the working table of the one open transaction until it commits. *)

\* The tuple that insert_products appends to values for one product.
ValuesTuple(product) ==
    [asin                  |-> product.asin,
     title                 |-> product.title,
     description           |-> product.description,
     brand                 |-> product.brand,
     category              |-> product.category,
     price                 |-> product.price,
     image_url             |-> product.image_url,
     rating                |-> product.rating,
     review_count          |-> product.review_count,
     title_embedding       |-> product.title_embedding,
     description_embedding |-> product.description_embedding,
     combined_embedding    |-> product.combined_embedding]

\* A value of a DECIMAL(p,2) column: rounded to two places, half away from zero.
Round2(d) ==
    IF d.none \/ d.scale <= 2 THEN d
    ELSE LET q == Pow10(d.scale - 2)
             a == IF d.num >= 0 THEN d.num ELSE 0 - d.num
             r == (a + (q \div 2)) \div q
         IN  Dec(IF d.num >= 0 THEN r ELSE 0 - r, 2)

\* Whether the table rejects the tuple: asin VARCHAR(20), brand VARCHAR(255),
\* review_count INTEGER, price DECIMAL(10,2), the three vector(384) columns.
ColumnError(t) ==
    \/ Len(t.asin) > asin_max_len
    \/ Len(t.brand) > brand_max_len
    \/ t.review_count > 2147483647 \/ t.review_count < (0 - 2147483647) - 1
    \/ (~t.price.none /\ ~DecLess(Round2(t.price), Dec(100000000, 0)))
    \/ t.title_embedding.dim # vector_column_dim
    \/ t.description_embedding.dim # vector_column_dim
    \/ t.combined_embedding.dim # vector_column_dim

\* The row the INSERT proposes for a tuple: the listed columns, and the
\* defaults of the others (id from the sequence, both timestamps now).
ProposedRow(t, id, ts) ==
    [id                    |-> id,
     asin                  |-> t.asin,
     title                 |-> t.title,
     description           |-> t.description,
     brand                 |-> t.brand,
     category              |-> t.category,
     price                 |-> Round2(t.price),
     image_url             |-> t.image_url,
     rating                |-> Round2(t.rating),
     review_count          |-> t.review_count,
     created_at            |-> ts,
     updated_at            |-> ts,
     title_embedding       |-> t.title_embedding,
     description_embedding |-> t.description_embedding,
     combined_embedding    |-> t.combined_embedding]

\* A conflict resolved by replacing the old row with the proposed one.
ConflictReplace(old, excluded, ts) == excluded

\* A SET list that lacks brand.
ConflictUpdateWithoutBrand(old, excluded, ts) ==
    [excluded EXCEPT !.id = old.id, !.created_at = old.created_at, !.brand = old.brand,
                     !.updated_at = ts]

\* ON CONFLICT (asin) DO UPDATE SET ...: the row that replaces old.
ConflictUpdate(old, excluded, ts) ==
    [old EXCEPT !.title                 = excluded.title,
                !.description           = excluded.description,
                !.brand                 = excluded.brand,
                !.category              = excluded.category,
                !.price                 = excluded.price,
                !.image_url             = excluded.image_url,
                !.rating                = excluded.rating,
                !.review_count          = excluded.review_count,
                !.title_embedding       = excluded.title_embedding,
                !.description_embedding = excluded.description_embedding,
                !.combined_embedding    = excluded.combined_embedding,
                !.updated_at            = ts]

\* One tuple of the statement applied to the table.
UpsertRow(tbl, t, id, ts) ==
    IF t.asin \in DOMAIN tbl
    THEN [tbl EXCEPT ![t.asin] = ConflictUpdate(tbl[t.asin], ProposedRow(t, id, ts), ts)]
    ELSE tbl @@ (t.asin :> ProposedRow(t, id, ts))

RECURSIVE UpsertRows(_, _, _, _)
\* The tuples of one statement applied in order, each taking the next value
\* of the id sequence.
UpsertRows(tbl, tuples, seq, ts) ==
    IF tuples = <<>> THEN tbl
    ELSE UpsertRows(UpsertRow(tbl, Head(tuples), seq, ts), Tail(tuples), seq + 1, ts)

\* Whether the statement fails: a tuple the columns reject, or two tuples of
\* the same asin ("ON CONFLICT DO UPDATE command cannot affect row a second
\* time").
StatementError(page) ==
    \/ \E k \in 1..Len(page) : ColumnError(page[k])
    \/ \E j, k \in 1..Len(page) : j # k /\ page[j].asin = page[k].asin

\* ------------------------------------------------------------------- inputs

Seqs(S, n) == UNION {[1..k -> S] : k \in 0..n}

BlankRow == [c \in Columns |-> NaN]

\* A row with the primary identifier and every other column filled.
RowA ==
    [BlankRow EXCEPT !["asin"]          = Cell(<<"A">>),
                     !["title"]         = Cell(<<"M", "o", "u", "s", "e">>),
                     !["brand"]         = Cell(<<"b">>),
                     !["categories"]    = Cell(<<"x", " ", ">", " ", "y">>),
                     !["final_price"]   = Cell(<<"$", "9", ".", "5", "0">>),
                     !["image_url"]     = Cell(<<"u">>),
                     !["rating"]        = Cell(<<"4", ".", "5">>),
                     !["reviews_count"] = Cell(<<"1", ".", "2", "K">>)]

\* The same identifier with other contents, found through the fallback columns.
RowA2 ==
    [BlankRow EXCEPT !["input_asin"]    = Cell(<<"A">>),
                     !["title"]         = Cell(<<"M", "i", "c", "e">>),
                     !["description"]   = Cell(<<"d">>),
                     !["manufacturer"]  = Cell(<<"m">>),
                     !["initial_price"] = Cell(<<"7">>)]

\* A row identified by the secondary column only.
RowB ==
    [BlankRow EXCEPT !["input_asin"] = Cell(<<"B">>),
                     !["title"]      = Cell(<<"K", "e", "y", "s">>),
                     !["rating"]     = Cell(<<"7", ".", "5">>)]

\* A row without identifier: its asin is the placeholder of its position.
RowNoId ==
    [BlankRow EXCEPT !["title"]       = Cell(<<"P", "a", "d", "s">>),
                     !["description"] = Cell(<<"d">>)]

\* A row whose title is too short after trimming; it carries the id of RowA.
RowShort ==
    [BlankRow EXCEPT !["asin"]  = Cell(<<"A">>),
                     !["title"] = Cell(<<" ", "a", "b", "c", " ">>)]

SourceRows == {RowA, RowNoId, RowShort}

\* What download_dataset can leave in the local file: a CSV of at most MaxRows
\* rows, or bytes that pd.read_csv cannot read.  The rows of these files are
\* resolved without an exception.
Unreadable == [readable |-> FALSE, rows |-> <<>>, raising |-> {}]

Files == {[readable |-> TRUE, rows |-> f, raising |-> {}] : f \in Seqs(SourceRows, MaxRows)}
         \cup {Unreadable}

\* The dimensionality of the model that __init__ loads.
ModelDims == {embedding_dimension, OtherDim}

\* ------------------------------------------------------------------- state

VARIABLES
    run,              \* invocations of run_pipeline so far
    pc,               \* the call run_pipeline makes next: a stage, or idle / done / failed
    error,            \* the exception run_pipeline ended with, "" for none
    reported,         \* the count of "Processed N products", -1 before it is logged
    model_dim,        \* the dimensionality of self.model
    dataset_file,     \* the contents of amazon_products.csv
    products,         \* the list products of run_pipeline
    started,          \* the stages this run has called, in order
    succeeded,        \* the stages this run has completed, in order
    ge,               \* the locals of generate_embeddings
    ops,              \* this run's (or this call's) counts of rows normalized, encode calls
                      \* (whether one failed, and the texts each was given), statements
                      \* executed and commits
    at_start,         \* the committed table and the schema when this run began
    db_schema,        \* whether the products table exists
    store,            \* the committed rows of products
    products_id_seq,  \* the next value of the sequence of the id column
    clock,            \* the database's clock: the CURRENT_TIMESTAMP of the next transaction
    txn,              \* the transaction of insert_products' connection
    ip,               \* the locals of insert_products
    calls,            \* direct calls of insert_products so far: n batches, the last one retried or not
    returns,          \* the (values, store) of the latest consecutive successful calls
    observed,         \* what another client of the store has read during this call
    parser_call,      \* a direct call of a parser: the function, its argument, its result
    products_with_embeddings
                      \* the list products_with_embeddings of run_pipeline: the list object
                      \* it names, and the records of that list when it is a list of its own

vars == <<run, pc, error, reported, model_dim, dataset_file, products, started, succeeded, ge,
          ops, at_start, db_schema, store, products_id_seq, clock, txn, ip, calls, returns,
          observed, parser_call, products_with_embeddings>>

pipelineVars == <<run, pc, error, reported, model_dim, dataset_file, products,
                  products_with_embeddings, started,
                  succeeded, ge, at_start>>

dbVars == <<db_schema, store, products_id_seq, clock, txn>>

EmptyTable == [a \in {} |-> 0]

NoTxn == [open |-> FALSE, ts |-> 0, rows |-> EmptyTable]

IpIdle == [pc |-> "idle", values |-> <<>>, page |-> 0, ts |-> 0, before |-> EmptyTable]

GeInit == [i |-> 0, call |-> 0, title_emb |-> <<>>, desc_emb |-> <<>>,
           title_embeddings |-> <<>>, description_embeddings |-> <<>>,
           combined_embeddings |-> <<>>]

NoOps == [normalized |-> 0, encode |-> 0, encode_failed |-> 0, encoded |-> <<>>, execute |-> 0,
          commit |-> 0]

NotObserved == [seen |-> FALSE, rows |-> EmptyTable]

\* products_with_embeddings before it is assigned.
NoList == [is |-> "none", records |-> <<>>]

NotParsed == [fn |-> "", arg |-> <<>>, out |-> <<>>]

Init ==
    /\ run = 0 /\ pc = "idle" /\ error = "" /\ reported = -1
    /\ model_dim = embedding_dimension
    /\ dataset_file = Unreadable
    /\ products = <<>> /\ products_with_embeddings = NoList
    /\ started = <<>> /\ succeeded = <<>>
    /\ ge = GeInit /\ ops = NoOps
    /\ at_start = [store |-> EmptyTable, db_schema |-> FALSE]
    /\ db_schema = FALSE /\ store = EmptyTable /\ products_id_seq = 1 /\ clock = 1
    /\ txn = NoTxn /\ ip = IpIdle /\ calls = [n |-> 0, retried |-> FALSE] /\ returns = <<>>
    /\ observed = NotObserved /\ parser_call = NotParsed

\* ----------------------------------------------------------- run_pipeline

Stages == <<"test_connection", "create_tables", "download_dataset", "parse_amazon_data",
            "generate_embeddings", "insert_products">>

NotRunning == pc \in {"idle", "done", "failed"}

NoCall == ip.pc \in {"idle", "returned", "raised"}

\* run_pipeline raising e.
Raise(e) == pc' = "failed" /\ error' = e

\* __main__: a new process constructs the pipeline, which loads the model, and
\* calls run_pipeline.
Main ==
    /\ NotRunning /\ NoCall /\ run < MaxRuns
    /\ run' = run + 1
    /\ \E d \in ModelDims : model_dim' = d
    /\ pc' = "test_connection" /\ error' = "" /\ reported' = -1
    /\ products' = <<>> /\ started' = <<>> /\ succeeded' = <<>>
    /\ ge' = GeInit /\ ops' = NoOps /\ ip' = IpIdle
    /\ at_start' = [store |-> store, db_schema |-> db_schema]
    /\ observed' = NotObserved /\ returns' = <<>>
    /\ products_with_embeddings' = NoList
    /\ UNCHANGED <<dataset_file, dbVars, calls, parser_call>>

\* A run_pipeline that does not look at the result of test_connection.
AfterTestConnectionUnchecked(ok) == "create_tables"

\* The call run_pipeline makes after test_connection returned ok.
AfterTestConnection(ok) == IF ok THEN "create_tables" ELSE "failed"

\* "Test database connection": SELECT 1 on the engine; any exception is
\* logged and becomes False, and run_pipeline raises.
test_connection ==
    /\ pc = "test_connection"
    /\ started' = Append(started, "test_connection")
    /\ \E ok \in BOOLEAN :
         /\ pc' = AfterTestConnection(ok)
         /\ error' = IF ok THEN error ELSE "Database connection failed"
         /\ succeeded' = IF ok THEN Append(succeeded, "test_connection") ELSE succeeded
    /\ UNCHANGED <<run, reported, model_dim, dataset_file, products, ge, ops, at_start,
                   dbVars, ip, calls, returns, observed, parser_call,
                   products_with_embeddings>>

\* "Create tables": CREATE ... IF NOT EXISTS in one transaction; an exception
\* is logged and raised again.
create_tables ==
    /\ pc = "create_tables"
    /\ started' = Append(started, "create_tables")
    /\ \E ok \in BOOLEAN :
         IF ok
         THEN /\ db_schema' = TRUE
              /\ pc' = "download_dataset"
              /\ succeeded' = Append(succeeded, "create_tables")
              /\ UNCHANGED error
         ELSE /\ Raise("Error creating tables")
              /\ UNCHANGED <<db_schema, succeeded>>
    /\ UNCHANGED <<run, reported, model_dim, dataset_file, products, ge, ops, at_start,
                   store, products_id_seq, clock, txn, ip, calls, returns, observed, parser_call,
                   products_with_embeddings>>

\* A run_pipeline that downloads again after a failed download.
AfterDownloadAgain(ok) == IF ok THEN "parse_amazon_data" ELSE "download_dataset"

\* A run_pipeline that does not look at the result of download_dataset.
AfterDownloadUnchecked(ok) == "parse_amazon_data"

\* The call run_pipeline makes after download_dataset returned ok.
AfterDownload(ok) == IF ok THEN "parse_amazon_data" ELSE "failed"

\* "Download and process data": the response is written to the local file;
\* any exception is logged and becomes False, and run_pipeline raises.  A
\* failed download leaves the file as it was or cut short.
download_dataset ==
    /\ pc = "download_dataset"
    /\ started' = Append(started, "download_dataset")
    /\ \E ok \in BOOLEAN :
         /\ pc' = AfterDownload(ok)
         /\ error' = IF ok THEN error ELSE "Failed to download dataset"
         /\ succeeded' = IF ok THEN Append(succeeded, "download_dataset") ELSE succeeded
         /\ IF ok THEN \E f \in Files : dataset_file' = f
                  ELSE dataset_file' \in {dataset_file, Unreadable}
    /\ UNCHANGED <<run, reported, model_dim, products, ge, ops, at_start, dbVars, ip, calls,
                   returns, observed, parser_call,
                   products_with_embeddings>>

\* A run_pipeline that goes on with an empty list.
AfterParseUnchecked(parsed) == "generate_embeddings"

\* The call run_pipeline makes after parse_amazon_data returned parsed.
AfterParse(parsed) == IF parsed # <<>> THEN "generate_embeddings" ELSE "failed"

\* The rows the loop of parse_amazon_data iterates over.
RowsIterated(file) == IF file.readable THEN Min(max_records, Len(file.rows)) ELSE 0

\* "Parse data": the accepted products of the file, [] when it cannot be
\* read; run_pipeline raises on an empty list.
parse_amazon_data_step ==
    /\ pc = "parse_amazon_data"
    /\ started' = Append(started, "parse_amazon_data")
    /\ LET parsed == parse_amazon_data(dataset_file)
       IN  /\ products' = parsed
           /\ pc' = AfterParse(parsed)
           /\ error' = IF parsed # <<>> THEN error ELSE "No valid products found in dataset"
           /\ succeeded' = IF parsed # <<>> THEN Append(succeeded, "parse_amazon_data")
                           ELSE succeeded
    /\ ops' = [ops EXCEPT !.normalized = RowsIterated(dataset_file)]
    /\ UNCHANGED <<run, reported, model_dim, dataset_file, ge, at_start, dbVars, ip, calls,
                   returns, observed, parser_call,
                   products_with_embeddings>>

\* ----------------------------------------------------- generate_embeddings

Texts(ps, projection) ==
    [k \in 1..Len(ps) |-> CASE projection = 0 -> TitleText(ps[k])
                            [] projection = 1 -> DescriptionText(ps[k])
                            [] OTHER          -> CombinedText(ps[k])]

\* The batch of the projection that the next encode call is given.
NextBatch(ps, g) == Slice(Texts(ps, g.call), g.i, Min(g.i + batch_size, Len(ps)))

\* A loop that puts each batch's vectors in front of those of the batches before.
AfterEncodePrepend(g, emb) ==
    CASE g.call = 0 -> [g EXCEPT !.call = 1, !.title_emb = emb]
      [] g.call = 1 -> [g EXCEPT !.call = 2, !.desc_emb = emb]
      [] OTHER      -> [g EXCEPT !.call = 0,
                                 !.i = g.i + batch_size,
                                 !.title_emb = <<>>,
                                 !.desc_emb = <<>>,
                                 !.title_embeddings = g.title_emb \o g.title_embeddings,
                                 !.description_embeddings = g.desc_emb \o g.description_embeddings,
                                 !.combined_embeddings = emb \o g.combined_embeddings]

\* A loop that steps by one record.
AfterEncodeStepOne(g, emb) ==
    CASE g.call = 0 -> [g EXCEPT !.call = 1, !.title_emb = emb]
      [] g.call = 1 -> [g EXCEPT !.call = 2, !.desc_emb = emb]
      [] OTHER      -> [g EXCEPT !.call = 0,
                                 !.i = g.i + 1,
                                 !.title_emb = <<>>,
                                 !.desc_emb = <<>>,
                                 !.title_embeddings = g.title_embeddings \o g.title_emb,
                                 !.description_embeddings = g.description_embeddings \o g.desc_emb,
                                 !.combined_embeddings = g.combined_embeddings \o emb]

\* The locals after the encode call of projection g.call returned emb: the
\* third call of a batch is followed by the three extends and the loop's step.
AfterEncode(g, emb) ==
    CASE g.call = 0 -> [g EXCEPT !.call = 1, !.title_emb = emb]
      [] g.call = 1 -> [g EXCEPT !.call = 2, !.desc_emb = emb]
      [] OTHER      -> [g EXCEPT !.call = 0,
                                 !.i = g.i + batch_size,
                                 !.title_emb = <<>>,
                                 !.desc_emb = <<>>,
                                 !.title_embeddings = g.title_embeddings \o g.title_emb,
                                 !.description_embeddings = g.description_embeddings \o g.desc_emb,
                                 !.combined_embeddings = g.combined_embeddings \o emb]

\* "Add embeddings to products": the dicts of the list get the three vectors
\* and the list is returned.
WithEmbeddings(ps, g) ==
    [k \in 1..Len(ps) |->
        [asin                  |-> ps[k].asin,
         title                 |-> ps[k].title,
         description           |-> ps[k].description,
         brand                 |-> ps[k].brand,
         category              |-> ps[k].category,
         price                 |-> ps[k].price,
         image_url             |-> ps[k].image_url,
         rating                |-> ps[k].rating,
         review_count          |-> ps[k].review_count,
         title_embedding       |-> g.title_embeddings[k],
         description_embedding |-> g.description_embeddings[k],
         combined_embedding    |-> g.combined_embeddings[k]]]

\* A generate_embeddings that catches the exception and returns the products
\* of the batches embedded so far.
EncodeRaisedKeepsEarlierBatches(ps, g) ==
    [pc       |-> "insert_products",
     products |-> WithEmbeddings(SubSeq(ps, 1, Len(g.combined_embeddings)), g)]

\* What run_pipeline goes on with when an encode call raises: the exception
\* leaves generate_embeddings and run_pipeline.
EncodeRaised(ps, g) == [pc |-> "failed", products |-> ps]

\* One self.model.encode call of the loop over the batches.
encode ==
    /\ pc = "generate_embeddings"
    /\ ge.i < Len(products)
    /\ started' = IF ge.i = 0 /\ ge.call = 0 THEN Append(started, "generate_embeddings")
                  ELSE started
    /\ \E ok \in BOOLEAN :
         IF ok
         THEN /\ ge' = AfterEncode(ge, Encode(NextBatch(products, ge), model_dim))
              /\ ops' = [ops EXCEPT !.encode = ops.encode + 1,
                                     !.encoded = Append(ops.encoded, NextBatch(products, ge))]
              /\ UNCHANGED <<pc, error, products>>
         ELSE /\ ops' = [ops EXCEPT !.encode = ops.encode + 1, !.encode_failed = 1,
                                     !.encoded = Append(ops.encoded, NextBatch(products, ge))]
              /\ pc' = EncodeRaised(products, ge).pc
              /\ products' = EncodeRaised(products, ge).products
              /\ error' = IF pc' = "failed" THEN "encode failed" ELSE error
              /\ UNCHANGED ge
    /\ UNCHANGED <<run, reported, model_dim, dataset_file, succeeded, at_start, dbVars, ip,
                   calls, returns, observed, parser_call,
                   products_with_embeddings>>

\* What generate_embeddings leaves and returns: the dicts of the list it was
\* given have the three vectors, and that list is the one returned.
Return(ps, g) ==
    [products |-> WithEmbeddings(ps, g), returned |-> [is |-> "products", records |-> <<>>]]

\* The end of generate_embeddings, after the last batch; run_pipeline binds
\* the list returned to products_with_embeddings.
generate_embeddings_return ==
    /\ pc = "generate_embeddings"
    /\ ge.i >= Len(products)
    /\ products' = Return(products, ge).products
    /\ products_with_embeddings' = Return(products, ge).returned
    /\ succeeded' = Append(succeeded, "generate_embeddings")
    /\ pc' = "insert_products"
    /\ UNCHANGED <<run, error, reported, model_dim, dataset_file, started, ge, ops, at_start,
                   dbVars, ip, calls, returns, observed, parser_call>>

\* The records of the list that the name refers to.
Deref(list, ps) == IF list.is = "products" THEN ps ELSE list.records

\* generate_embeddings applied to a whole list by a model of dimensionality dim.
Embedded(ps, dim) ==
    [k \in 1..Len(ps) |->
        [asin                  |-> ps[k].asin,
         title                 |-> ps[k].title,
         description           |-> ps[k].description,
         brand                 |-> ps[k].brand,
         category              |-> ps[k].category,
         price                 |-> ps[k].price,
         image_url             |-> ps[k].image_url,
         rating                |-> ps[k].rating,
         review_count          |-> ps[k].review_count,
         title_embedding       |-> Encode(Texts(ps, 0), dim)[k],
         description_embedding |-> Encode(Texts(ps, 1), dim)[k],
         combined_embedding    |-> Encode(Texts(ps, 2), dim)[k]]]

\* --------------------------------------------------------- insert_products

\* values[page:page+page_size], the tuples of one statement of execute_values.
Page(values, page) == SubSeq(values, page + 1, Min(page + page_size, Len(values)))

\* insert_products after its exit: back in run_pipeline when it was called
\* from there, which logs the count and ends, or raises the exception again.
Exit(ok) ==
    IF pc = "insert_products"
    THEN /\ pc' = IF ok THEN "done" ELSE "failed"
         /\ error' = IF ok THEN error ELSE "Error inserting products"
         /\ reported' = IF ok THEN Len(products) ELSE reported
         /\ succeeded' = IF ok THEN Append(succeeded, "insert_products") ELSE succeeded
    ELSE UNCHANGED <<pc, error, reported, succeeded>>

\* The entry of insert_products with the list ps: the connection is opened
\* and the tuples are built.
Enter(ps) ==
    /\ observed' = NotObserved
    /\ \E ok \in BOOLEAN :
         IF ok
         THEN /\ ip' = [pc |-> "execute", values |-> [k \in 1..Len(ps) |-> ValuesTuple(ps[k])],
                        page |-> 0, ts |-> 0, before |-> store]
              /\ UNCHANGED <<pc, error, reported, succeeded, returns>>
         ELSE /\ ip' = [pc |-> "raised", values |-> <<>>, page |-> 0, ts |-> 0, before |-> store]
              /\ returns' = <<>>
              /\ Exit(FALSE)
    /\ UNCHANGED <<run, model_dim, dataset_file, products, ge, at_start, dbVars, parser_call,
                   products_with_embeddings>>

\* "Insert into database": run_pipeline calls insert_products.
insert_products ==
    /\ pc = "insert_products" /\ ip.pc = "idle"
    /\ started' = Append(started, "insert_products")
    /\ Enter(Deref(products_with_embeddings, products))
    /\ UNCHANGED <<ops, calls>>

\* An autocommit connection: every statement is committed as it ends.
AfterStatementAutocommit(committed, work) == [store |-> work, rows |-> work]

\* What the committed table and the transaction's table are after a statement
\* turned the transaction's table into work: the connection is not autocommit,
\* the statement's rows stay in the transaction until conn.commit().
AfterStatement(committed, work) == [store |-> committed, rows |-> work]

\* One statement of execute_values: the next page_size tuples.  The first one
\* opens the transaction at the clock's time.  A failed statement, or a lost
\* connection, raises; the connection is dropped without a commit, which
\* rolls the transaction back.  The id sequence is not rolled back.
execute_values_page ==
    /\ ip.pc = "execute"
    /\ ip.page < Len(ip.values)
    /\ ops' = [ops EXCEPT !.execute = ops.execute + 1]
    /\ LET page == Page(ip.values, ip.page)
           ts   == IF txn.open THEN txn.ts ELSE clock
           work == IF txn.open THEN txn.rows ELSE store
       IN  /\ clock' = IF txn.open THEN clock ELSE clock + 1
           /\ \E lost \in BOOLEAN :
                IF lost \/ ~db_schema \/ StatementError(page)
                THEN /\ ip' = [ip EXCEPT !.pc = "raised"]
                     /\ txn' = NoTxn
                     /\ \E n \in 0..Len(page) : products_id_seq' = products_id_seq + n
                     /\ returns' = <<>>
                     /\ Exit(FALSE)
                     /\ UNCHANGED store
                ELSE LET after == AfterStatement(store,
                                      UpsertRows(work, page, products_id_seq, ts))
                     IN  /\ store' = after.store
                         /\ txn' = [open |-> TRUE, ts |-> ts, rows |-> after.rows]
                         /\ products_id_seq' = products_id_seq + Len(page)
                         /\ ip' = [ip EXCEPT !.page = ip.page + page_size, !.ts = ts]
                         /\ UNCHANGED <<pc, error, reported, succeeded, returns>>
    /\ UNCHANGED <<run, model_dim, dataset_file, products, started, ge, at_start, db_schema,
                   calls, observed, parser_call,
                   products_with_embeddings>>

\* The latest consecutive successful calls, at most two.
Returned(rs, values, tbl) ==
    LET r == [values |-> values, store |-> tbl]
    IN  IF rs = <<>> THEN <<r>> ELSE <<rs[Len(rs)], r>>

\* conn.commit() after the last page, then conn.close(): the transaction's
\* table becomes the committed one.  A commit that fails raises, and nothing
\* is committed.
commit ==
    /\ ip.pc = "execute"
    /\ ip.page >= Len(ip.values)
    /\ txn' = NoTxn
    /\ \E ok \in BOOLEAN :
         IF ok
         THEN /\ store' = IF txn.open THEN txn.rows ELSE store
              /\ ops' = [ops EXCEPT !.commit = ops.commit + 1]
              /\ ip' = [ip EXCEPT !.pc = "returned"]
              /\ returns' = Returned(returns, ip.values, store')
              /\ Exit(TRUE)
         ELSE /\ ip' = [ip EXCEPT !.pc = "raised"]
              /\ returns' = <<>>
              /\ Exit(FALSE)
              /\ UNCHANGED <<store, ops>>
    /\ UNCHANGED <<run, model_dim, dataset_file, products, started, ge, at_start, db_schema,
                   products_id_seq, clock, calls, observed, parser_call,
                   products_with_embeddings>>

\* ------------------------------------------------ insert_products, called alone

\* The embedded records a caller can hand over: products of parse_amazon_data
\* embedded by generate_embeddings.
Pool == {Embedded(<<ParseRow(0, r)>>, embedding_dimension)[1] : r \in {RowA, RowA2, RowB, RowNoId}}

\* The batches handed over: at most MaxBatch of them, none twice (two records of
\* one identifier differ in their contents).
Batches == {b \in Seqs(Pool, MaxBatch) : \A j, k \in 1..Len(b) : j # k => b[j] # b[k]}

\* A caller (a test, a scheduler's job) calls insert_products with a batch.
call_insert_products ==
    /\ NotRunning /\ NoCall /\ calls.n < MaxCalls
    /\ calls' = [n |-> calls.n + 1, retried |-> FALSE]
    /\ ops' = NoOps
    /\ \E b \in Batches : Enter(b)
    /\ UNCHANGED started

\* The caller calls insert_products again with the batch of its last call.
retry_insert_products ==
    /\ NotRunning /\ ip.pc \in {"returned", "raised"} /\ ~calls.retried
    /\ calls' = [calls EXCEPT !.retried = TRUE]
    /\ ops' = NoOps
    /\ Enter(ip.values)
    /\ UNCHANGED started

\* Another client of the store reads the products table (READ COMMITTED: it
\* sees the committed rows).
Observe ==
    /\ ip.pc # "idle"
    /\ observed # [seen |-> TRUE, rows |-> store]
    /\ observed' = [seen |-> TRUE, rows |-> store]
    /\ UNCHANGED <<pipelineVars, ops, dbVars, ip, calls, returns, parser_call>>

\* ------------------------------------------------------- the parsers, called alone

\* A row whose title is too short.
RowAb ==
    [BlankRow EXCEPT !["input_asin"] = Cell(<<"C">>),
                     !["title"]      = Cell(<<"a", "b">>)]

\* A row with the primary and the fallback column of every chain, and with a
\* price and a rating of zero.
RowWireless ==
    [BlankRow EXCEPT !["asin"]          = Cell(<<"W">>),
                     !["input_asin"]    = Cell(<<"V">>),
                     !["title"]         = Cell(<<"W", "i", "r", "e", "l", "e", "s", "s", " ",
                                                 "M", "o", "u", "s", "e">>),
                     !["brand"]         = Cell(<<"b">>),
                     !["manufacturer"]  = Cell(<<"m">>),
                     !["final_price"]   = Cell(<<"0">>),
                     !["initial_price"] = Cell(<<"7">>),
                     !["rating"]        = Cell(<<"0">>),
                     !["reviews_count"] = Cell(<<"-", "5">>)]

\* A row whose identifier is the placeholder of the second row of a file.
RowPlaceholder ==
    [BlankRow EXCEPT !["asin"]  = Cell(AsinPrefix \o <<"1">>),
                     !["title"] = Cell(<<"C", "a", "s", "e">>)]

ParserRows == {RowA2, RowNoId, RowShort, RowAb, RowWireless, RowPlaceholder}

\* The files parse_amazon_data is called with: at most MaxRows rows, at most
\* one of which raises while it is resolved.
ParserFiles ==
    {[readable |-> TRUE, rows |-> p[1], raising |-> IF p[2] < 0 THEN {} ELSE {p[2]}] :
        p \in {q \in Seqs(ParserRows, MaxRows) \X (-1..(MaxRows - 1)) : q[2] < Len(q[1])}}
    \cup {Unreadable}

\* A caller calls parse_amazon_data on the local file.
call_parse_amazon_data ==
    /\ parser_call.fn = ""
    /\ parser_call' = [parser_call EXCEPT !.fn = "parse_amazon_data",
                                          !.out = parse_amazon_data(dataset_file)]
    /\ UNCHANGED <<pipelineVars, ops, dbVars, ip, calls, returns, observed>>

PriceChars == {"$", "1", "0", ".", ",", "-", "a"}

RatingChars == {"-", "7", ".", "5", "0", "x"}

ReviewCountChars == {"1", ".", "2", "K", "m", ",", "-"}

CategoryChars == {"a", " ", ",", ">", "|", "[", "]", "'"}

\* The strings of the specification's examples.
ExampleTexts ==
    {<<"$", "1", ",", "2", "9", "9", ".", "9", "9">>,
     <<"1", ".", "2", "K">>, <<"1", ".", "2", "k">>, <<"2", "M">>, <<"1", ",", "2", "3", "4">>,
     NanStr,
     <<"E", "l", "e", "c", "t", "r", "o", "n", "i", "c", "s", " ", ">", " ",
       "A", "u", "d", "i", "o", " ", ">", " ",
       "H", "e", "a", "d", "p", "h", "o", "n", "e", "s">>,
     <<"a", ",", "b", ",", "c", ",", "d", ",", "e", ",", "f", ",", "g">>,
     <<"[", "'", "a", "'", ",", " ", "'", "b", " ", "c", "'", "]">>,
     <<"[", "a", "|", "b", ",", "c", ",", "d", ",", "e", ",", "f", ",", "g", "]">>}

\* The strings the field parsers are called with: every string of at most
\* MaxText characters over the characters each parser looks at (one character
\* fewer for the review counts, whose millions stay below 2^31), and the
\* examples.
TextInputs ==
    Seqs(PriceChars, MaxText) \cup Seqs(RatingChars, MaxText)
    \cup Seqs(ReviewCountChars, MaxText - 1) \cup Seqs(CategoryChars, MaxText) \cup ExampleTexts

\* A caller calls one of the field parsers with the string.
call_parse_price ==
    /\ parser_call.fn = ""
    /\ parser_call' = [parser_call EXCEPT !.fn = "_parse_price", !.out = _parse_price(parser_call.arg)]
    /\ UNCHANGED <<pipelineVars, ops, dbVars, ip, calls, returns, observed>>

call_parse_rating ==
    /\ parser_call.fn = ""
    /\ parser_call' = [parser_call EXCEPT !.fn = "_parse_rating", !.out = _parse_rating(parser_call.arg)]
    /\ UNCHANGED <<pipelineVars, ops, dbVars, ip, calls, returns, observed>>

call_parse_review_count ==
    /\ parser_call.fn = ""
    /\ parser_call' = [parser_call EXCEPT !.fn = "_parse_review_count",
                                          !.out = _parse_review_count(parser_call.arg)]
    /\ UNCHANGED <<pipelineVars, ops, dbVars, ip, calls, returns, observed>>

call_parse_category ==
    /\ parser_call.fn = ""
    /\ parser_call' = [parser_call EXCEPT !.fn = "_parse_category",
                                          !.out = _parse_category(parser_call.arg)]
    /\ UNCHANGED <<pipelineVars, ops, dbVars, ip, calls, returns, observed>>

\* ------------------------------------------------------------ specifications

Next ==
    \/ Main
    \/ test_connection
    \/ create_tables
    \/ download_dataset
    \/ parse_amazon_data_step
    \/ encode
    \/ generate_embeddings_return
    \/ insert_products
    \/ execute_values_page
    \/ commit

\* run_pipeline, run up to MaxRuns times against one store.
Spec == Init /\ [][Next]_vars

\* The store after create_tables, before any pipeline ran.
InitUpsert ==
    /\ run = 0 /\ pc = "idle" /\ error = "" /\ reported = -1
    /\ model_dim = embedding_dimension
    /\ dataset_file = Unreadable
    /\ products = <<>> /\ products_with_embeddings = NoList
    /\ started = <<>> /\ succeeded = <<>>
    /\ ge = GeInit /\ ops = NoOps
    /\ at_start = [store |-> EmptyTable, db_schema |-> FALSE]
    /\ db_schema = TRUE /\ store = EmptyTable /\ products_id_seq = 1 /\ clock = 1
    /\ txn = NoTxn /\ ip = IpIdle /\ calls = [n |-> 0, retried |-> FALSE] /\ returns = <<>>
    /\ observed = NotObserved /\ parser_call = NotParsed

NextUpsert ==
    \/ call_insert_products
    \/ retry_insert_products
    \/ execute_values_page
    \/ commit
    \/ Observe

\* insert_products called with batches, observed by another client.
SpecUpsert == InitUpsert /\ [][NextUpsert]_vars

\* The local file holds any of ParserFiles.
InitNormalize ==
    /\ run = 0 /\ pc = "idle" /\ error = "" /\ reported = -1
    /\ model_dim = embedding_dimension
    /\ dataset_file \in ParserFiles
    /\ products = <<>> /\ products_with_embeddings = NoList
    /\ started = <<>> /\ succeeded = <<>>
    /\ ge = GeInit /\ ops = NoOps
    /\ at_start = [store |-> EmptyTable, db_schema |-> FALSE]
    /\ db_schema = FALSE /\ store = EmptyTable /\ products_id_seq = 1 /\ clock = 1
    /\ txn = NoTxn /\ ip = IpIdle /\ calls = [n |-> 0, retried |-> FALSE] /\ returns = <<>>
    /\ observed = NotObserved /\ parser_call = NotParsed

NextNormalize == call_parse_amazon_data

\* parse_amazon_data called on every file of ParserFiles.
SpecNormalize == InitNormalize /\ [][NextNormalize]_vars

\* The argument is any of TextInputs.
InitFields ==
    /\ run = 0 /\ pc = "idle" /\ error = "" /\ reported = -1
    /\ model_dim = embedding_dimension
    /\ dataset_file = Unreadable
    /\ products = <<>> /\ products_with_embeddings = NoList
    /\ started = <<>> /\ succeeded = <<>>
    /\ ge = GeInit /\ ops = NoOps
    /\ at_start = [store |-> EmptyTable, db_schema |-> FALSE]
    /\ db_schema = FALSE /\ store = EmptyTable /\ products_id_seq = 1 /\ clock = 1
    /\ txn = NoTxn /\ ip = IpIdle /\ calls = [n |-> 0, retried |-> FALSE] /\ returns = <<>>
    /\ observed = NotObserved
    /\ \E s \in TextInputs : parser_call = [fn |-> "", arg |-> s, out |-> <<>>]

NextFields ==
    \/ call_parse_price
    \/ call_parse_rating
    \/ call_parse_review_count
    \/ call_parse_category

\* The four field parsers called on every string of TextInputs.
SpecFields == InitFields /\ [][NextFields]_vars

\* ------------------------------------------------------------------- claims

IsPrefix(s, t) == Len(s) <= Len(t) /\ SubSeq(t, 1, Len(s)) = s

Range(s) == {s[k] : k \in 1..Len(s)}

StageNames == Range(Stages)

\* The position that follows p in run_pipeline.
Following(p) ==
    IF \E k \in 1..(Len(Stages) - 1) : Stages[k] = p
    THEN Stages[(CHOOSE k \in 1..(Len(Stages) - 1) : Stages[k] = p) + 1]
    ELSE "done"

C1_Positions ==
    /\ IsPrefix(started, Stages)
    /\ IsPrefix(succeeded, started)
    /\ Len(started) <= Len(succeeded) + 1
    /\ pc \in StageNames => pc = Stages[Len(succeeded) + 1]
    /\ pc = "done" => succeeded = Stages
    /\ pc = "failed" => Len(started) = Len(succeeded) + 1

C1_Step ==
    run' = run =>
        /\ pc \in StageNames => pc' \in {pc, Following(pc), "failed"}
        /\ pc \in {"done", "failed"} => pc' = pc
        /\ IsPrefix(started, started')
        /\ IsPrefix(succeeded, succeeded')

\* C1: in every run the stages are called in the order test_connection,
\* create_tables, download_dataset, parse_amazon_data, generate_embeddings,
\* insert_products, done: the stages called are a prefix of that order (none
\* twice), a stage is called only when all before it have succeeded, and a
\* step of the run stays in its stage, moves to the following one or fails.
C1_StageOrder == [](C1_Positions) /\ [][C1_Step]_vars

\* C1: a second run that went through every stage.
C1_Witness == run = 2 /\ pc = "done" /\ succeeded = Stages

NoWrite == ops.execute = 0 /\ ops.commit = 0 /\ ~txn.open /\ ip.pc = "idle"
           /\ "insert_products" \notin Range(started)

StoreAsAtStart == store = at_start.store

\* C2: when test_connection has failed, the run has failed and nothing else
\* was called: create_tables, download_dataset, parse_amazon_data, encode and
\* the store's statements never ran, and the schema and the committed rows
\* are those the run began with.
C2_ConnectivityFatal ==
    error = "Database connection failed" =>
        /\ pc = "failed"
        /\ started = <<"test_connection">> /\ succeeded = <<>>
        /\ db_schema = at_start.db_schema /\ StoreAsAtStart
        /\ products = <<>> /\ ops = NoOps /\ NoWrite

\* C2: the check fails in a run against a store that holds rows.
C2_Witness ==
    pc = "failed" /\ error = "Database connection failed" /\ store # EmptyTable

\* C3: when an encode call has failed (whichever projection of whichever
\* batch), the run has failed, insert_products was never called, no statement
\* ran and the committed rows are those the run began with.
C3_VectorizationFatal ==
    ops.encode_failed = 1 =>
        /\ pc = "failed" /\ error = "encode failed"
        /\ NoWrite /\ StoreAsAtStart
        /\ reported = -1

\* C3: the second call of the second batch fails, after the first batch was
\* embedded.
C3_Witness ==
    /\ ops.encode_failed = 1 /\ ge.call = 1 /\ ge.i = batch_size
    /\ Len(ge.combined_embeddings) = batch_size

\* C7: when parse_amazon_data has returned no product, the run has failed
\* with "No valid products found in dataset": no encode call was issued,
\* insert_products was not called, the committed rows are unchanged and the
\* run is not done.
C7_EmptyResultFatal ==
    ("parse_amazon_data" \in Range(started) /\ products = <<>>) =>
        /\ pc = "failed" /\ error = "No valid products found in dataset"
        /\ "generate_embeddings" \notin Range(started)
        /\ ops.encode = 0 /\ NoWrite /\ StoreAsAtStart
        /\ reported = -1

\* C7: a readable file whose rows are all dropped by the filter.
C7_Witness ==
    /\ pc = "failed" /\ products = <<>> /\ "parse_amazon_data" \in Range(started)
    /\ dataset_file.readable /\ Len(dataset_file.rows) >= 2

\* C8: when download_dataset has failed, the run has failed before
\* parse_amazon_data was called; and when the file cannot be read, the run has
\* failed in parse_amazon_data: either way no row was normalized, no encode
\* call was issued and insert_products was not called.
C8_SourceUnavailableFatal ==
    /\ error = "Failed to download dataset" =>
          /\ pc = "failed"
          /\ started = SubSeq(Stages, 1, 3) /\ succeeded = SubSeq(Stages, 1, 2)
          /\ products = <<>> /\ ops.normalized = 0 /\ ops.encode = 0 /\ NoWrite
          /\ StoreAsAtStart
    /\ ("parse_amazon_data" \in Range(started) /\ ~dataset_file.readable) =>
          /\ pc = "failed"
          /\ products = <<>> /\ ops.normalized = 0 /\ ops.encode = 0 /\ NoWrite
          /\ StoreAsAtStart

\* C8: the download fails while the local file still holds the rows of the
\* run before.
C8_Witness ==
    /\ pc = "failed" /\ error = "Failed to download dataset"
    /\ dataset_file.readable /\ Len(dataset_file.rows) > 0

\* C8: the downloaded file cannot be read.
C8_WitnessRead ==
    pc = "failed" /\ "parse_amazon_data" \in Range(started) /\ ~dataset_file.readable

HasDeclaredVectors(r) ==
    /\ r.title_embedding.dim = embedding_dimension
    /\ r.description_embedding.dim = embedding_dimension
    /\ r.combined_embedding.dim = embedding_dimension

\* C9: insert_products is only ever called with records whose three vectors
\* have the declared dimensionality: a run whose encode calls return vectors
\* of another length fails before that.
C9_DimensionChecked ==
    "insert_products" \in Range(started) =>
        \A k \in 1..Len(products) : HasDeclaredVectors(products[k])

\* The acceptance filter, as the claims state it: the title, trimmed, is
\* longer than 3.
TitlePasses(row) == ~row["title"].na /\ Len(Strip(row["title"].v)) > 3

\* The identifier of the row at position i (from 1) of the file.
RowId(rows, i) == ParseRow(i - 1, rows[i]).asin

PassingRows(rows, n) == {i \in 1..n : TitlePasses(rows[i])}

\* C10 as stated: after a successful run over n rows of which k pass the
\* filter, the count reported is k, the store holds a row with vectors of the
\* configured dimensionality for each accepted identifier, and holds no row
\* for a dropped row (none under an identifier that only dropped rows carry).
C10_AsStated ==
    pc = "done" =>
        LET rows == dataset_file.rows
            n    == Len(rows)
            acc  == PassingRows(rows, n)
        IN  /\ reported = Cardinality(acc)
            /\ \A i \in acc : /\ RowId(rows, i) \in DOMAIN store
                              /\ HasDeclaredVectors(store[RowId(rows, i)])
            /\ \A i \in (1..n) \ acc :
                  RowId(rows, i) \in DOMAIN store => \E j \in acc : RowId(rows, j) = RowId(rows, i)

\* C10, amended: after a successful run, the count reported is the number of
\* rows among the first max_records of the file that pass the filter, the
\* store holds a row with vectors of the configured dimensionality for each of
\* their identifiers, and every other row of the store is a row it held
\* before the run, unchanged.
C10_ProcessedAndStored ==
    pc = "done" =>
        LET rows == dataset_file.rows
            n    == Min(max_records, Len(rows))
            acc  == PassingRows(rows, n)
        IN  /\ reported = Cardinality(acc)
            /\ \A i \in acc : /\ RowId(rows, i) \in DOMAIN store
                              /\ HasDeclaredVectors(store[RowId(rows, i)])
            /\ \A a \in DOMAIN store :
                  \/ \E i \in acc : RowId(rows, i) = a
                  \/ (a \in DOMAIN at_start.store /\ store[a] = at_start.store[a])

\* C10: three rows, one dropped and two accepted, processed = 2.
C10_Witness ==
    /\ pc = "done" /\ Len(dataset_file.rows) = 3 /\ reported = 2
    /\ Cardinality(PassingRows(dataset_file.rows, 3)) = 2
    /\ Cardinality(DOMAIN store) = 2

BatchIds(values) == {values[k].asin : k \in 1..Len(values)}

\* The last tuple of the batch with the identifier a.
LastOf(values, a) ==
    values[CHOOSE k \in 1..Len(values) :
              values[k].asin = a /\ \A j \in (k + 1)..Len(values) : values[j].asin # a]

\* C4: insert_products is all or nothing.  While the call runs and after it
\* raised, whatever pages it executed, the committed rows are those before the
\* call; and what another client read during or after the call is the table
\* before the call or, once the call has returned, the table with every
\* record of the batch applied.
C4_AllOrNothing ==
    /\ ip.pc \in {"execute", "raised"} => store = ip.before
    /\ observed.seen =>
          \/ observed.rows = ip.before
          \/ /\ ip.pc = "returned"
             /\ observed.rows = store
             /\ BatchIds(ip.values) \subseteq DOMAIN store

\* C4: the call raises after a page with a new identifier was executed, and
\* another client has read the table meanwhile.
C4_Witness ==
    /\ ip.pc = "raised" /\ ip.page >= page_size /\ observed.seen
    /\ \E k \in 1..page_size : ip.values[k].asin \notin DOMAIN ip.before
    /\ ip.before # EmptyTable

\* C5 as stated: two successful calls in a row with the same batch leave the
\* table exactly as the first of them left it.
C5_AsStated ==
    (Len(returns) = 2 /\ returns[1].values = returns[2].values) =>
        returns[2].store = returns[1].store

WithoutUpdatedAt(tbl) == [a \in DOMAIN tbl |-> [tbl[a] EXCEPT !.updated_at = 0]]

\* C5, amended: two successful calls in a row with the same batch leave the
\* table as the first of them left it in every column but updated_at (which
\* the second call sets again for the rows of the batch), and leave the rows
\* of other identifiers exactly as they were.
C5_IdempotentButTimestamp ==
    (Len(returns) = 2 /\ returns[1].values = returns[2].values) =>
        /\ WithoutUpdatedAt(returns[2].store) = WithoutUpdatedAt(returns[1].store)
        /\ \A a \in DOMAIN returns[1].store \ BatchIds(returns[1].values) :
              returns[2].store[a] = returns[1].store[a]

\* C5: a batch applied twice to a table that held other rows before.
C5_Witness ==
    /\ Len(returns) = 2 /\ returns[1].values = returns[2].values
    /\ returns[1].values # <<>>
    /\ DOMAIN returns[1].store \ BatchIds(returns[1].values) # {}
    /\ returns[2].store # returns[1].store

\* The columns of the tuple t in the stored row r, and the timestamp ts of the
\* call in updated_at.
CarriesTuple(r, t, ts) ==
    r = [ProposedRow(t, r.id, ts) EXCEPT !.created_at = r.created_at]

\* C6 as stated, for a batch of pairwise distinct identifiers: after a
\* successful call, every record of the batch is the stored row of its
\* identifier in every column: the columns of the record, and both timestamps
\* those of this call, nothing kept from a row stored before; rows of other
\* identifiers are unchanged.
C6_AsStated ==
    (ip.pc = "returned" /\ Cardinality(BatchIds(ip.values)) = Len(ip.values)) =>
        /\ \A k \in 1..Len(ip.values) :
              LET t == ip.values[k]
              IN  /\ t.asin \in DOMAIN store
                  /\ CarriesTuple(store[t.asin], t, ip.ts)
                  /\ store[t.asin].created_at = ip.ts
        /\ \A a \in DOMAIN store \ BatchIds(ip.values) :
              a \in DOMAIN ip.before /\ store[a] = ip.before[a]
        /\ DOMAIN ip.before \subseteq DOMAIN store

\* C6, amended: after a successful call, the stored row of every identifier of
\* the batch carries the columns of the last record of the batch with that
\* identifier and the call's timestamp in updated_at; for an identifier stored
\* before, id and created_at are those of the old row, for a new one they are
\* the next sequence value and the call's timestamp; rows of other identifiers
\* are unchanged.
C6_Overwrite ==
    ip.pc = "returned" =>
        /\ \A a \in BatchIds(ip.values) :
              /\ a \in DOMAIN store
              /\ CarriesTuple(store[a], LastOf(ip.values, a), ip.ts)
              /\ IF a \in DOMAIN ip.before
                 THEN /\ store[a].id = ip.before[a].id
                      /\ store[a].created_at = ip.before[a].created_at
                 ELSE /\ store[a].created_at = ip.ts
                      /\ \A b \in DOMAIN ip.before : store[a].id > ip.before[b].id
        /\ \A a \in DOMAIN store \ BatchIds(ip.values) :
              a \in DOMAIN ip.before /\ store[a] = ip.before[a]
        /\ DOMAIN ip.before \subseteq DOMAIN store

\* C6: a batch that overwrites a stored row with other contents, inserts a new
\* identifier and leaves a third row alone.
C6_Witness ==
    /\ ip.pc = "returned"
    /\ \E a \in BatchIds(ip.values) \cap DOMAIN ip.before : store[a].title # ip.before[a].title
    /\ BatchIds(ip.values) \ DOMAIN ip.before # {}
    /\ DOMAIN ip.before \ BatchIds(ip.values) # {}

Called(fn) == parser_call.fn = fn

\* The file without the row at position k (from 0), read without an exception.
WithoutRow(file, k) ==
    [file EXCEPT !.rows = SubSeq(file.rows, 1, k) \o SubSeq(file.rows, k + 2, Len(file.rows)),
                 !.raising = {}]

\* The file with a row that has no title at position k (from 0) instead of its
\* row, read without an exception.
WithBlankRow(file, k) == [file EXCEPT !.rows[k + 1] = BlankRow, !.raising = {}]

\* The positions (from 1) among the first max_records rows whose resolution
\* does not raise and whose title passes the filter.
KeptRows(file) ==
    {i \in 1..Min(max_records, Len(file.rows)) : (i - 1) \notin file.raising
                                                   /\ TitlePasses(file.rows[i])}

\* The j-th smallest element of the set K of integers.
NthOf(K, j) == CHOOSE i \in K : Cardinality({h \in K : h < i}) = j - 1

\* C11 as stated: when the resolution of one row raises, parse_amazon_data
\* returns what it returns for the file without that row.
C11_AsStated ==
    (Called("parse_amazon_data") /\ dataset_file.readable) =>
        \A k \in dataset_file.raising :
            parser_call.out = parse_amazon_data(WithoutRow(dataset_file, k))

\* C11, amended: when the resolution of one row raises, only that row is
\* dropped and the loop goes on: parse_amazon_data returns, in order, the
\* normalized rows of the other positions (among the first max_records) whose
\* title passes the filter, each normalized at its own position in the file;
\* which is what it returns for the file that has a row without title in the
\* place of the bad row.
C11_RowIsolated ==
    (Called("parse_amazon_data") /\ dataset_file.readable) =>
        LET K == KeptRows(dataset_file)
        IN  /\ Len(parser_call.out) = Cardinality(K)
            /\ \A j \in 1..Cardinality(K) :
                   parser_call.out[j] = ParseRow(NthOf(K, j) - 1, dataset_file.rows[NthOf(K, j)])
            /\ \A k \in dataset_file.raising :
                   parser_call.out = parse_amazon_data(WithBlankRow(dataset_file, k))

\* C11: the second of three rows raises; the first is accepted, and the third
\* under the placeholder of its own position.
C11_Witness ==
    /\ Called("parse_amazon_data")
    /\ dataset_file.raising = {1} /\ Len(dataset_file.rows) = 3
    /\ Len(parser_call.out) = 2
    /\ parser_call.out[2].asin = AsinPrefix \o <<"2">>

\* The positions (from 1) of the rows that parse_amazon_data normalizes: the
\* first max_records, but for the one whose resolution raises.
ResolvedRows(file) ==
    {i \in 1..Min(max_records, Len(file.rows)) : (i - 1) \notin file.raising}

Normalized(file, i) == ParseRow(i - 1, file.rows[i])

TitleAb == <<"a", "b">>

TitleWirelessMouse == <<"W", "i", "r", "e", "l", "e", "s", "s", " ", "M", "o", "u", "s", "e">>

\* C12: a normalized row is in the list parse_amazon_data returns if and only
\* if its title, trimmed, is longer than 3 characters: every record returned
\* has such a title, every normalized row with such a title is returned (once
\* per row), a row titled "ab" is not and a row titled "Wireless Mouse" is;
\* rows are dropped without the call failing for the others.
C12_AcceptanceFilter ==
    (Called("parse_amazon_data") /\ dataset_file.readable) =>
        LET out  == parser_call.out
            R    == ResolvedRows(dataset_file)
            long == {i \in R : Len(Strip(Normalized(dataset_file, i).title)) > 3}
        IN  /\ \A j \in 1..Len(out) : Len(Strip(out[j].title)) > 3
            /\ \A i \in R : (i \in long) <=> (\E j \in 1..Len(out) : out[j] = Normalized(dataset_file, i))
            /\ Len(out) = Cardinality(long)
            /\ \A i \in R :
                  /\ Normalized(dataset_file, i).title = TitleAb
                        => \A j \in 1..Len(out) : out[j] # Normalized(dataset_file, i)
                  /\ Normalized(dataset_file, i).title = TitleWirelessMouse
                        => \E j \in 1..Len(out) : out[j] = Normalized(dataset_file, i)

\* C12: a file of a row titled "ab", a row titled "Wireless Mouse" and a row
\* titled " abc ": the second alone is returned.
C12_Witness ==
    /\ Called("parse_amazon_data") /\ dataset_file.raising = {}
    /\ Len(dataset_file.rows) = 3
    /\ dataset_file.rows[1]["title"].v = TitleAb
    /\ dataset_file.rows[2]["title"].v = TitleWirelessMouse
    /\ dataset_file.rows[3]["title"].v = <<" ", "a", "b", "c", " ">>
    /\ Len(parser_call.out) = 1 /\ parser_call.out[1].title = TitleWirelessMouse

\* The nine fields of a record of parse_amazon_data.
Fields(p) ==
    [asin |-> p.asin, title |-> p.title, description |-> p.description, brand |-> p.brand,
     category |-> p.category, price |-> p.price, image_url |-> p.image_url,
     rating |-> p.rating, review_count |-> p.review_count]

\* C13: when generate_embeddings has returned, the list has the length and the
\* order of the list it was given (the records parse_amazon_data returned),
\* and its i-th record carries the fields of the i-th input record and the
\* vectors of that record's own title, description and combined texts, the
\* records of a later batch included.
C13_OneToOne ==
    "generate_embeddings" \in Range(succeeded) =>
        LET given == parse_amazon_data(dataset_file)
        IN  /\ Len(products) = Len(given)
            /\ \A k \in 1..Len(given) :
                  /\ Fields(products[k]) = given[k]
                  /\ products[k].title_embedding = [of |-> TitleText(given[k]), dim |-> model_dim]
                  /\ products[k].description_embedding =
                         [of |-> DescriptionText(given[k]), dim |-> model_dim]
                  /\ products[k].combined_embedding =
                         [of |-> CombinedText(given[k]), dim |-> model_dim]

\* C13: three records in two batches, the one of the second batch with texts
\* other than those of the record before it.
C13_Witness ==
    /\ "generate_embeddings" \in Range(succeeded)
    /\ Len(products) = batch_size + 1
    /\ products[batch_size + 1].title_embedding # products[batch_size].title_embedding
    /\ products[batch_size + 1].combined_embedding # products[1].combined_embedding

Present(row, col) == ~row[col].na

\* C14: every record parse_amazon_data returns has the identifier of its row's
\* asin column, else of its input_asin column, else "ASIN_" and the position of
\* the row in the file (from 0); the brand of the brand column, else of the
\* manufacturer column; the price parsed from the final_price column, else from
\* the initial_price column (empty brand and no price when neither is there).
C14_Fallbacks ==
    (Called("parse_amazon_data") /\ dataset_file.readable) =>
        LET K == KeptRows(dataset_file)
        IN  /\ Len(parser_call.out) = Cardinality(K)
            /\ \A j \in 1..Cardinality(K) :
                  LET i   == NthOf(K, j)
                      row == dataset_file.rows[i]
                      r   == parser_call.out[j]
                  IN  /\ r.asin = IF Present(row, "asin") THEN row["asin"].v
                                  ELSE IF Present(row, "input_asin") THEN row["input_asin"].v
                                  ELSE AsinPrefix \o IntToStr(i - 1)
                      /\ r.brand = IF Present(row, "brand") THEN row["brand"].v
                                   ELSE IF Present(row, "manufacturer") THEN row["manufacturer"].v
                                   ELSE <<>>
                      /\ r.price = IF Present(row, "final_price")
                                   THEN _parse_price(row["final_price"].v)
                                   ELSE IF Present(row, "initial_price")
                                   THEN _parse_price(row["initial_price"].v)
                                   ELSE None

\* C14: a row with the fallback columns only, a row with no identifier at the
\* second position, and a row with the columns of both ranks.
C14_Witness ==
    /\ Called("parse_amazon_data") /\ dataset_file.raising = {}
    /\ dataset_file.rows = <<RowA2, RowNoId, RowWireless>>
    /\ Len(parser_call.out) = 3
    /\ parser_call.out[1].asin = <<"A">> /\ parser_call.out[1].brand = <<"m">>
    /\ parser_call.out[1].price = Dec(7, 0)
    /\ parser_call.out[2].asin = AsinPrefix \o <<"1">>
    /\ parser_call.out[3].asin = <<"W">> /\ parser_call.out[3].brand = <<"b">>
    /\ parser_call.out[3].price = Dec(0, 0)

\* C15: price and rating are optional: every record parse_amazon_data returns
\* for a row with neither price column has no price (None, not 0), and every
\* record it returns for a row without rating has no rating (None, not 0).
C15_TrueOptionals ==
    (Called("parse_amazon_data") /\ dataset_file.readable) =>
        LET K == KeptRows(dataset_file)
        IN  /\ Len(parser_call.out) = Cardinality(K)
            /\ \A j \in 1..Cardinality(K) :
                  LET row == dataset_file.rows[NthOf(K, j)]
                      r   == parser_call.out[j]
                  IN  /\ (~Present(row, "final_price") /\ ~Present(row, "initial_price"))
                            => r.price = None
                      /\ ~Present(row, "rating") => r.rating = None

\* a <= b for two floats that are not None.
DecLeq(a, b) == ~DecLess(b, a)

\* C16: _parse_rating returns None, or a value from 0.0 to 5.0: None for a
\* string that is no number, 5.0 for a number above 5 ("7.5" gives 5.0), 0.0 for
\* a number below 0 ("-1" gives 0.0), and the number itself otherwise.
C16_RatingClamped ==
    Called("_parse_rating") =>
        LET out == parser_call.out
            x   == PyFloat(parser_call.arg)
        IN  /\ out.none \/ (DecLeq(Dec(0, 0), out) /\ DecLeq(out, Dec(5, 0)))
            /\ x.none => out.none
            /\ ~x.none =>
                  /\ ~out.none
                  /\ DecLess(Dec(5, 0), x) => out = Dec(5, 0)
                  /\ DecLess(x, Dec(0, 0)) => out = Dec(0, 0)
                  /\ (DecLeq(Dec(0, 0), x) /\ DecLeq(x, Dec(5, 0))) => DecLeq(out, x) /\ DecLeq(x, out)
            /\ parser_call.arg = <<"7", ".", "5">> => out = Dec(5, 0)
            /\ parser_call.arg = <<"-", "1">> => out = Dec(0, 0)
            /\ parser_call.arg = <<"0", ".", "5">> => out = Dec(5, 1)

\* C16: _parse_rating called with "7.5" has returned 5.0.
C16_Witness ==
    /\ Called("_parse_rating")
    /\ parser_call.arg = <<"7", ".", "5">>
    /\ parser_call.out = Dec(5, 0)

\* C17: _parse_review_count returns a non-negative integer: "1.2K" gives 1200,
\* "1.2k" too, "2M" gives 2000000, "1,234" gives 1234, and a string that is no
\* number gives 0.
C17_ReviewCountNonNegative ==
    Called("_parse_review_count") =>
        LET out == parser_call.out
            arg == parser_call.arg
        IN  /\ out \in Nat
            /\ arg = <<"1", ".", "2", "K">> => out = 1200
            /\ arg = <<"1", ".", "2", "k">> => out = 1200
            /\ arg = <<"2", "M">> => out = 2000000
            /\ arg = <<"1", ",", "2", "3", "4">> => out = 1234
            /\ (\A k \in 1..Len(arg) : arg[k] \notin Digits) => out = 0

\* The characters _parse_price keeps.
PriceKept(price_str) ==
    [k \in 1..Cardinality({h \in 1..Len(price_str) : price_str[h] \in Digits \cup {"."}}) |->
        price_str[NthOf({h \in 1..Len(price_str) : price_str[h] \in Digits \cup {"."}}, k)]]

\* C18: _parse_price reads the digits and decimal points of the string, in
\* order, as one decimal number ("$1,299.99" gives 1299.99); it returns None,
\* not 0, when they are no number (none of them is a digit, or there are two
\* points) and for the empty string; a result is never negative.
C18_PriceParsed ==
    Called("_parse_price") =>
        LET out    == parser_call.out
            kept   == PriceKept(parser_call.arg)
            digits == {k \in 1..Len(kept) : kept[k] \in Digits}
            points == {k \in 1..Len(kept) : kept[k] = "."}
        IN  /\ out.none \/ out.num >= 0
            /\ (digits = {} \/ Cardinality(points) > 1) <=> out.none
            /\ ~out.none =>
                  LET frac == IF points = {} THEN 0
                              ELSE Cardinality({k \in digits : \A q \in points : k > q})
                  IN  out.num * Pow10(frac) = DigitsToInt(Remove(kept, {"."})) * Pow10(out.scale)
            /\ parser_call.arg = <<"$", "1", ",", "2", "9", "9", ".", "9", "9">>
                  => out = Dec(129999, 2)
            /\ parser_call.arg = <<>> => out.none

\* C18: _parse_price called with "$1,299.99" has returned 1299.99.
C18_Witness ==
    /\ Called("_parse_price")
    /\ parser_call.arg = <<"$", "1", ",", "2", "9", "9", ".", "9", "9">>
    /\ parser_call.out = [none |-> FALSE, num |-> 129999, scale |-> 2]

RECURSIVE Flatten(_)
Flatten(ss) == IF ss = <<>> THEN <<>> ELSE Head(ss) \o Flatten(Tail(ss))

Bracketed(str) == str # <<>> /\ Head(str) = "[" /\ str[Len(str)] = "]"

\* The separators of a category string, and the text between its brackets
\* without the quotes (the string itself when it has no brackets).
CategorySeparators(str) == IF Bracketed(str) THEN {","} ELSE {",", "|", ">"}

CategoryBody(str) ==
    IF Bracketed(str) THEN Remove(StripChars(str, {"[", "]"}), {"'", "\""}) ELSE str

\* The positions at which a token begins: a character that is no separator and
\* no blank, with nothing but blanks between it and the separator before it.
TokenStarts(body, seps) ==
    {k \in 1..Len(body) :
        /\ body[k] \notin seps \cup {" "}
        /\ \A h \in 1..(k - 1) : (\A m \in h..(k - 1) : body[m] \notin seps) => body[h] = " "}

\* What C19 says of the list out returned for the string str.
CategoryTokens(str, out) ==
    LET seps == CategorySeparators(str)
        body == CategoryBody(str)
        flat == Remove(Flatten(out), {" "})
        text == Remove(body, seps \cup {" "})
    IN  /\ Len(out) = Min(5, Cardinality(TokenStarts(body, seps)))
        /\ \A k \in 1..Len(out) :
              /\ out[k] # <<>> /\ Head(out[k]) # " " /\ out[k][Len(out[k])] # " "
              /\ \A h \in 1..Len(out[k]) : out[k][h] \notin seps
        /\ IsPrefix(flat, text)
        /\ Len(out) < 5 => flat = text

CategoryExamples(str, out) ==
    /\ str = <<"E", "l", "e", "c", "t", "r", "o", "n", "i", "c", "s", " ", ">", " ",
               "A", "u", "d", "i", "o", " ", ">", " ",
               "H", "e", "a", "d", "p", "h", "o", "n", "e", "s">>
          => out = << <<"E", "l", "e", "c", "t", "r", "o", "n", "i", "c", "s">>,
                      <<"A", "u", "d", "i", "o">>,
                      <<"H", "e", "a", "d", "p", "h", "o", "n", "e", "s">> >>
    /\ str = <<"a", ",", "b", ",", "c", ",", "d", ",", "e", ",", "f", ",", "g">>
          => out = << <<"a">>, <<"b">>, <<"c">>, <<"d">>, <<"e">> >>
    /\ str = <<"[", "'", "a", "'", ",", " ", "'", "b", " ", "c", "'", "]">>
          => out = << <<"a">>, <<"b", " ", "c">> >>

\* C19 as stated: for every string, _parse_category returns at most 5 tokens,
\* trimmed and not empty, in the order of the string: the pieces between
\* commas of a bracketed string without its brackets and quotes, the pieces
\* between commas, pipes and ">" of any other string; the first 5 of them
\* when there are more.
C19_AsStated ==
    Called("_parse_category") =>
        /\ CategoryTokens(parser_call.arg, parser_call.out)
        /\ CategoryExamples(parser_call.arg, parser_call.out)

\* C19, amended: the same for every string but "nan", the text of a missing
\* value, for which _parse_category returns the empty list.
C19_CategoryTokens ==
    Called("_parse_category") =>
        /\ parser_call.arg # NanStr => CategoryTokens(parser_call.arg, parser_call.out)
        /\ parser_call.arg = NanStr => parser_call.out = <<>>
        /\ CategoryExamples(parser_call.arg, parser_call.out)

\* C19: the list of seven categories has been cut to its first five.
C19_Witness ==
    /\ Called("_parse_category")
    /\ parser_call.arg = <<"a", ",", "b", ",", "c", ",", "d", ",", "e", ",", "f", ",", "g">>
    /\ Len(parser_call.out) = 5

\* The number of batches of n records.
BatchCount(n) == (n + batch_size - 1) \div batch_size

\* C20: the encode calls of generate_embeddings are, in this order, three per
\* batch of batch_size consecutive records (the last batch may be shorter):
\* the titles, the description texts and the combined texts of exactly the
\* records of the batch, every call of a batch before any call of the next;
\* when generate_embeddings has returned there were 3 * ceil(n / batch_size)
\* calls, fewer than one per record and projection when n > 1.
C20_BatchedCalls ==
    LET n   == Len(products)
        log == ops.encoded
    IN  /\ Len(log) = ops.encode
        /\ Len(log) <= 3 * BatchCount(n)
        /\ \A c \in 1..Len(log) :
              LET b == (c - 1) \div 3
                  p == (c - 1) % 3
              IN  /\ log[c] = SubSeq(Texts(products, p), b * batch_size + 1,
                                     Min((b + 1) * batch_size, n))
                  /\ Len(log[c]) \in 1..batch_size
        /\ "generate_embeddings" \in Range(succeeded) =>
              /\ Len(log) = 3 * BatchCount(n)
              /\ n > 1 => Len(log) < 3 * n

\* C20: three records were embedded in two batches, by six calls.
C20_Witness ==
    /\ "generate_embeddings" \in Range(succeeded)
    /\ Len(products) = batch_size + 1
    /\ Len(ops.encoded) = 6
    /\ Len(ops.encoded[1]) = batch_size /\ Len(ops.encoded[6]) = 1

\* C21: when generate_embeddings has returned, the records of the list it was
\* given are as parse_amazon_data made them (the same fields with the same
\* values, none added), and the list it returned is another list than the
\* one it was given.
C21_InputsUntouched ==
    "generate_embeddings" \in Range(succeeded) =>
        /\ products = parse_amazon_data(dataset_file)
        /\ products_with_embeddings.is # "products"

\* C22: the records parse_amazon_data has returned to run_pipeline, and those
\* insert_products is called with, have identifiers that are not empty and
\* pairwise distinct.
C22_DistinctIds ==
    /\ "parse_amazon_data" \in Range(succeeded) =>
          /\ \A k \in 1..Len(products) : products[k].asin # <<>>
          /\ \A j, k \in 1..Len(products) : j # k => products[j].asin # products[k].asin
    /\ ip.pc # "idle" =>
          /\ \A k \in 1..Len(ip.values) : ip.values[k].asin # <<>>
          /\ \A j, k \in 1..Len(ip.values) : j # k => ip.values[j].asin # ip.values[k].asin

====
